---- MODULE Spec2Model ----
(***************************************************************************)
(* Scoped-permission authorization of go-blogs: the identity middleware    *)
(* (AuthMiddleware, both variants), the permission gate RequirePermission, *)
(* the resolver CheckScopedPermission / HasPermission and the user         *)
(* handlers, as one request travelling through the middleware chain.       *)
(*                                                                         *)
(* A permission name is a Go string.  It is modelled as the sequence of    *)
(* its lexical symbols: words (resource, action and scope names, which     *)
(* hold no colon) and the separator ":".  "users:read:own" is              *)
(* <<"users", ":", "read", ":", "own">>.  String equality is sequence      *)
(* equality, + is \o, and strings.Split / HasSuffix / HasPrefix /          *)
(* TrimSuffix are computed on the symbols.                                 *)
(***************************************************************************)
EXTENDS Integers, Sequences, FiniteSets, TLC

\* Longest held-permission list of the administratively defined role.
MaxHeld == 2

(***************************************************************************)
(* Go strings                                                              *)
(***************************************************************************)
Str(r, a) == <<r, ":", a>>

Scoped(r, a, s) == <<r, ":", a, ":", s>>

EmptyString == <<>>

HasSuffix(s, suffix) ==
    /\ Len(s) >= Len(suffix)
    /\ SubSeq(s, Len(s) - Len(suffix) + 1, Len(s)) = suffix

HasPrefix(s, prefix) ==
    /\ Len(s) >= Len(prefix)
    /\ SubSeq(s, 1, Len(prefix)) = prefix

TrimSuffix(s, suffix) ==
    IF HasSuffix(s, suffix) THEN SubSeq(s, 1, Len(s) - Len(suffix)) ELSE s

RECURSIVE SplitFrom(_, _, _, _)
SplitFrom(s, i, cur, acc) ==
    IF i > Len(s) THEN Append(acc, cur)
    ELSE IF s[i] = ":" THEN SplitFrom(s, i + 1, <<>>, Append(acc, cur))
    ELSE SplitFrom(s, i + 1, Append(cur, s[i]), acc)

\* strings.Split(s, ":")
Split(s) == SplitFrom(s, 1, <<>>, <<>>)

\* for _, perm := range list { if perm == p { ... } }
Contains(list, p) == \E i \in 1..Len(list) : list[i] = p

(***************************************************************************)
(* services/permission.go                                                  *)
(***************************************************************************)
CheckPublicPermissionNever(permission) == FALSE

CheckPublicPermission(permission) == HasSuffix(permission, <<":", "public">>)

\* basePermission := parts[0] + ":" + parts[1], "" when there are fewer than 2 parts
BasePermission(permission) ==
    LET parts == Split(permission)
    IN  IF Len(parts) >= 2 THEN parts[1] \o <<":">> \o parts[2] ELSE EmptyString

HasPermissionExactOnly(userPermissions, requiredPermission) ==
    Contains(userPermissions, requiredPermission)

\* HasPermission whose loops return false at the first entry that differs.
HasPermissionFirstEntry(userPermissions, requiredPermission) ==
    IF userPermissions = <<>> THEN FALSE
    ELSE IF userPermissions[1] = requiredPermission THEN TRUE
    ELSE LET parts == Split(requiredPermission)
         IN  IF Len(parts) >= 2
             THEN userPermissions[1] = parts[1] \o <<":">> \o parts[2]
             ELSE FALSE

HasPermission(userPermissions, requiredPermission) ==
    IF Contains(userPermissions, requiredPermission) THEN TRUE
    ELSE LET parts == Split(requiredPermission)
         IN  IF Len(parts) >= 2
             THEN Contains(userPermissions, parts[1] \o <<":">> \o parts[2])
             ELSE FALSE

\* CheckScopedPermission without its last loop: a held :own variant grants nothing.
CheckScopedPermissionNoOwn(userPermissions, requiredPermission) ==
    IF HasSuffix(requiredPermission, <<":", "public">>)
    THEN <<FALSE, TRUE, FALSE>>
    ELSE IF HasPermission(userPermissions, requiredPermission)
    THEN IF HasSuffix(requiredPermission, <<":", "all">>) THEN <<TRUE, FALSE, FALSE>>
         ELSE IF HasSuffix(requiredPermission, <<":", "own">>) THEN <<TRUE, FALSE, TRUE>>
         ELSE <<TRUE, FALSE, FALSE>>
    ELSE LET parts == Split(requiredPermission)
         IN  IF Len(parts) >= 2
                /\ Contains(userPermissions, parts[1] \o <<":">> \o parts[2] \o <<":", "all">>)
             THEN <<TRUE, FALSE, FALSE>>
             ELSE <<FALSE, FALSE, FALSE>>

\* CheckScopedPermission with the :all loop dropped: a held :all variant is not looked for.
CheckScopedPermissionNoAll(userPermissions, requiredPermission) ==
    IF HasSuffix(requiredPermission, <<":", "public">>)
    THEN <<FALSE, TRUE, FALSE>>
    ELSE IF HasPermission(userPermissions, requiredPermission)
    THEN IF HasSuffix(requiredPermission, <<":", "all">>) THEN <<TRUE, FALSE, FALSE>>
         ELSE IF HasSuffix(requiredPermission, <<":", "own">>) THEN <<TRUE, FALSE, TRUE>>
         ELSE <<TRUE, FALSE, FALSE>>
    ELSE LET parts == Split(requiredPermission)
         IN  IF Len(parts) >= 2
                /\ Contains(userPermissions, parts[1] \o <<":">> \o parts[2] \o <<":", "own">>)
             THEN <<TRUE, FALSE, TRUE>>
             ELSE <<FALSE, FALSE, FALSE>>

\* CheckScopedPermission whose public branch looks for the exact name only.
CheckScopedPermissionPublicExact(userPermissions, requiredPermission) ==
    IF HasSuffix(requiredPermission, <<":", "public">>)
    THEN IF \E i \in 1..Len(userPermissions) : userPermissions[i] = requiredPermission
         THEN <<TRUE, TRUE, FALSE>>
         ELSE <<FALSE, TRUE, FALSE>>
    ELSE IF HasPermission(userPermissions, requiredPermission)
    THEN IF HasSuffix(requiredPermission, <<":", "all">>) THEN <<TRUE, FALSE, FALSE>>
         ELSE IF HasSuffix(requiredPermission, <<":", "own">>) THEN <<TRUE, FALSE, TRUE>>
         ELSE <<TRUE, FALSE, FALSE>>
    ELSE LET parts == Split(requiredPermission)
         IN  IF Len(parts) >= 2
                /\ Contains(userPermissions, parts[1] \o <<":">> \o parts[2] \o <<":", "all">>)
             THEN <<TRUE, FALSE, FALSE>>
             ELSE IF Len(parts) >= 2
                     /\ Contains(userPermissions, parts[1] \o <<":">> \o parts[2] \o <<":", "own">>)
             THEN <<TRUE, FALSE, TRUE>>
             ELSE <<FALSE, FALSE, FALSE>>

\* CheckScopedPermission whose last loop grants without asking for the ownership check.
CheckScopedPermissionOwnUnchecked(userPermissions, requiredPermission) ==
    IF HasSuffix(requiredPermission, <<":", "public">>)
    THEN IF \E i \in 1..Len(userPermissions) :
               \/ userPermissions[i] = requiredPermission
               \/ HasPrefix(userPermissions[i],
                            TrimSuffix(requiredPermission, <<":", "public">>) \o <<":">>)
         THEN <<TRUE, TRUE, FALSE>>
         ELSE <<FALSE, TRUE, FALSE>>
    ELSE IF HasPermission(userPermissions, requiredPermission)
    THEN IF HasSuffix(requiredPermission, <<":", "all">>) THEN <<TRUE, FALSE, FALSE>>
         ELSE IF HasSuffix(requiredPermission, <<":", "own">>) THEN <<TRUE, FALSE, TRUE>>
         ELSE <<TRUE, FALSE, FALSE>>
    ELSE LET parts == Split(requiredPermission)
         IN  IF Len(parts) >= 2
                /\ Contains(userPermissions, parts[1] \o <<":">> \o parts[2] \o <<":", "all">>)
             THEN <<TRUE, FALSE, FALSE>>
             ELSE IF Len(parts) >= 2
                     /\ Contains(userPermissions, parts[1] \o <<":">> \o parts[2] \o <<":", "own">>)
             THEN <<TRUE, FALSE, FALSE>>
             ELSE <<FALSE, FALSE, FALSE>>

\* CheckScopedPermission deciding on the first held entry alone.
CheckScopedPermissionFirstEntry(userPermissions, requiredPermission) ==
    LET first == IF userPermissions = <<>> THEN <<>> ELSE <<userPermissions[1]>>
    IN
        IF HasSuffix(requiredPermission, <<":", "public">>)
        THEN IF \E i \in 1..Len(first) :
                   \/ first[i] = requiredPermission
                   \/ HasPrefix(first[i],
                                TrimSuffix(requiredPermission, <<":", "public">>) \o <<":">>)
             THEN <<TRUE, TRUE, FALSE>>
             ELSE <<FALSE, TRUE, FALSE>>
        ELSE IF HasPermission(first, requiredPermission)
        THEN IF HasSuffix(requiredPermission, <<":", "all">>) THEN <<TRUE, FALSE, FALSE>>
             ELSE IF HasSuffix(requiredPermission, <<":", "own">>) THEN <<TRUE, FALSE, TRUE>>
             ELSE <<TRUE, FALSE, FALSE>>
        ELSE LET parts == Split(requiredPermission)
             IN  IF Len(parts) >= 2
                    /\ Contains(first, parts[1] \o <<":">> \o parts[2] \o <<":", "all">>)
                 THEN <<TRUE, FALSE, FALSE>>
                 ELSE IF Len(parts) >= 2
                         /\ Contains(first, parts[1] \o <<":">> \o parts[2] \o <<":", "own">>)
                 THEN <<TRUE, FALSE, TRUE>>
                 ELSE <<FALSE, FALSE, FALSE>>

\* Returns <<hasPermission, isPublic, needsOwnershipCheck>>.
CheckScopedPermission(userPermissions, requiredPermission) ==
    IF HasSuffix(requiredPermission, <<":", "public">>)
    THEN IF \E i \in 1..Len(userPermissions) :
                \/ userPermissions[i] = requiredPermission
                \/ HasPrefix(userPermissions[i],
                             TrimSuffix(requiredPermission, <<":", "public">>) \o <<":">>)
         THEN <<TRUE, TRUE, FALSE>>
         ELSE <<FALSE, TRUE, FALSE>>
    ELSE IF HasPermission(userPermissions, requiredPermission)
    THEN IF HasSuffix(requiredPermission, <<":", "all">>) THEN <<TRUE, FALSE, FALSE>>
         ELSE IF HasSuffix(requiredPermission, <<":", "own">>) THEN <<TRUE, FALSE, TRUE>>
         ELSE <<TRUE, FALSE, FALSE>>
    ELSE LET parts == Split(requiredPermission)
         IN  IF Len(parts) >= 2
                /\ Contains(userPermissions, parts[1] \o <<":">> \o parts[2] \o <<":", "all">>)
             THEN <<TRUE, FALSE, FALSE>>
             ELSE IF Len(parts) >= 2
                     /\ Contains(userPermissions, parts[1] \o <<":">> \o parts[2] \o <<":", "own">>)
             THEN <<TRUE, FALSE, TRUE>>
             ELSE <<FALSE, FALSE, FALSE>>

(***************************************************************************)
(* gin.Context values: c.Get(key) yields (value, exists).  A value is       *)
(* tagged with its Go dynamic type; Absent is a key that was never Set.     *)
(***************************************************************************)
Absent == <<"absent">>

NilV == <<"nil">>

UintV(n) == <<"uint", n>>

StrV(s) == <<"string", s>>

BoolV(b) == <<"bool", b>>

ListV(l) == <<"[]string", l>>

Exists(v) == v # Absent

TypeOf(v) == v[1]

EmptyContext ==
    [user_id |-> Absent, role_id |-> Absent, permissions |-> Absent,
     permission_scope |-> Absent, needs_ownership_check |-> Absent, scope |-> Absent]

(***************************************************************************)
(* Seeded catalog and routes                                               *)
(***************************************************************************)
\* The seed map with users:delete also granted to the admin role.
RolePermissionsMapAdminDeletes(roleName) ==
    CASE roleName = "superadmin" ->
            << Str("users", "create"), Str("users", "read"), Str("users", "update"),
               Str("users", "delete"), Str("blogs", "create"), Scoped("blogs", "read", "all"),
               Scoped("blogs", "update", "all"), Scoped("blogs", "delete", "all") >>
      [] roleName = "admin" ->
            << Str("users", "read"), Str("users", "update"), Str("users", "delete"),
               Str("blogs", "create"), Scoped("blogs", "read", "all"),
               Scoped("blogs", "update", "all") >>
      [] roleName = "user" ->
            << Scoped("users", "read", "own"), Scoped("users", "update", "own"),
               Str("blogs", "create"), Scoped("blogs", "read", "own"),
               Scoped("blogs", "update", "own"), Scoped("blogs", "delete", "own") >>

\* seeders.RolePermissionsMap, keyed by the ids the roles get in seeders.Roles order
RolePermissionsMap(roleName) ==
    CASE roleName = "superadmin" ->
            << Str("users", "create"), Str("users", "read"), Str("users", "update"),
               Str("users", "delete"), Str("blogs", "create"), Scoped("blogs", "read", "all"),
               Scoped("blogs", "update", "all"), Scoped("blogs", "delete", "all") >>
      [] roleName = "admin" ->
            << Str("users", "read"), Str("users", "update"), Str("blogs", "create"),
               Scoped("blogs", "read", "all"), Scoped("blogs", "update", "all") >>
      [] roleName = "user" ->
            << Scoped("users", "read", "own"), Scoped("users", "update", "own"),
               Str("blogs", "create"), Scoped("blogs", "read", "own"),
               Scoped("blogs", "update", "own"), Scoped("blogs", "delete", "own") >>

Roles == <<"superadmin", "admin", "user">>

\* The role an administrator defines beside the seeded ones.
CustomRole == Len(Roles) + 1

RoleIDs == 1..CustomRole

\* Names an administrator may grant to the custom role.
GrantableNames ==
    { Str("users", "read"), Scoped("users", "read", "own"), Scoped("users", "read", "all"),
      Scoped("users", "read", "public"), Str("users", "delete"), <<"admin">> }

\* Lists of at most n distinct names: Permission.Name is unique and the
\* many2many join holds a permission once per role.
RECURSIVE SeqsUpTo(_, _)
SeqsUpTo(S, n) ==
    IF n = 0 THEN {<<>>}
    ELSE LET shorter == SeqsUpTo(S, n - 1)
         IN  shorter \cup {Append(l, x) : l \in shorter, x \in S}

NoDuplicates(l) == \A i, j \in 1..Len(l) : l[i] = l[j] => i = j

HeldLists == {l \in SeqsUpTo(GrantableNames, MaxHeld) : NoDuplicates(l)}

\* routes.UserRoutes: [permission given to RequirePermission, handler, path has :id]
UserRoutes ==
    { [permission |-> Str("users", "read"),   handler |-> "GetAllUsers", has_id |-> FALSE],
      [permission |-> Str("users", "read"),   handler |-> "GetUserByID", has_id |-> TRUE],
      [permission |-> Str("users", "create"), handler |-> "CreateUser",  has_id |-> FALSE],
      [permission |-> Str("users", "update"), handler |-> "UpdateUser",  has_id |-> TRUE],
      [permission |-> Str("users", "delete"), handler |-> "DeleteUser",  has_id |-> TRUE] }

\* RequirePermission(permission) takes any string: further gates in front of GetUserByID.
OtherGates ==
    { [permission |-> p, handler |-> "GetUserByID", has_id |-> TRUE] :
        p \in { Scoped("users", "read", "own"), Scoped("users", "read", "all"),
                Scoped("users", "read", "public"), <<"admin">> } }

Routes == UserRoutes \cup OtherGates

\* Subjects of the tokens of the custom role, and the ids a path may carry.
SubjectIDs == {5}

PathIDs == {5, 7}

NoToken == [kind |-> "none", user_id |-> 0, role_id |-> 0]

\* Authorization header values: scheme word and the token behind it.
Headers ==
    { [scheme |-> "", token |-> NoToken],
      [scheme |-> "Basic", token |-> NoToken] }
    \cup { [scheme |-> sch, token |-> [kind |-> k, user_id |-> u, role_id |-> CustomRole]] :
             sch \in {"Bearer"}, k \in {"badsig", "expired", "valid"}, u \in SubjectIDs }
    \cup { [scheme |-> "bearer", token |-> [kind |-> "valid", user_id |-> u, role_id |-> CustomRole]] :
             u \in SubjectIDs }
    \cup { [scheme |-> "Bearer", token |-> [kind |-> "valid", user_id |-> r, role_id |-> r]] :
             r \in 1..Len(Roles) }

Modes == {"optional", "allowPublic", "requireAuth"}

VARIABLES
    mode,            \* which AuthMiddleware is installed, and its allowPublic flag
    header,          \* the request's Authorization header
    route,           \* the matched route: gate permission and handler
    param_id,        \* c.Param("id")
    catalog,         \* role id -> permission names, as the store returns them
    c,               \* the gin.Context key/value store
    pc,              \* position in the handler chain
    status,          \* HTTP status written, 0 while none is
    gate_outcome,    \* terminal outcome of RequirePermission
    db_queries,      \* catalog queries issued for this request
    gate_queries,    \* those of them issued by RequirePermission
    handler_ran,     \* the route handler was entered
    ownership_branch,\* the handler entered its ownership-check branch
    resolver,        \* a direct call of CheckScopedPermission: arguments and return
    seed,            \* the roles and users tables around database.Connect's seeding
    pair             \* two requests served concurrently, each with its own gin.Context

vars == <<mode, header, route, param_id, catalog, c, pc, status, gate_outcome,
          db_queries, gate_queries, handler_ran, ownership_branch, resolver, seed,
          pair>>

(***************************************************************************)
(* seeders/seeder.go on the roles and users tables                         *)
(***************************************************************************)
\* Usernames of the users SeedDefaultUsers builds; each is also a role name.
DefaultUsers == <<"superadmin", "admin", "user">>

RoleNames == {Roles[i] : i \in 1..Len(Roles)}

NoRow == [exists |-> FALSE, role_id |-> 0]

\* Both tables empty: roles maps a name to its id (0: no such row).
EmptyTables ==
    [roles |-> [n \in RoleNames |-> 0],
     users |-> [u \in {DefaultUsers[i] : i \in 1..Len(DefaultUsers)} |-> NoRow]]

\* The id the roles table gives its next row.
NextID(roles) ==
    LET ids == {roles[n] : n \in RoleNames}
    IN  (CHOOSE m \in ids \cup {0} : \A i \in ids : i <= m) + 1

\* for _, r := range Roles { db.FirstOrCreate(&r, models.Role{Name: r.Name}) }
RECURSIVE InsertRoles(_, _)
InsertRoles(roles, i) ==
    IF i > Len(Roles) THEN roles
    ELSE IF roles[Roles[i]] # 0 THEN InsertRoles(roles, i + 1)
    ELSE InsertRoles([roles EXCEPT ![Roles[i]] = NextID(roles)], i + 1)

\* var users = []models.User{ {RoleID: roleMap["superadmin"].ID}, ... }: a
\* missing key of a Go map reads as the zero Role, whose ID is 0
BuildUsers(roleMap) ==
    [i \in 1..Len(DefaultUsers) |->
        [username |-> DefaultUsers[i],
         role_id  |-> IF DefaultUsers[i] \in DOMAIN roleMap
                      THEN roleMap[DefaultUsers[i]] ELSE 0]]

\* for _, u := range users { db.FirstOrCreate(&u, models.User{Username: u.Username}) }
RECURSIVE InsertUsers(_, _, _)
InsertUsers(users, built, i) ==
    IF i > Len(built) THEN users
    ELSE IF users[built[i].username].exists THEN InsertUsers(users, built, i + 1)
    ELSE InsertUsers([users EXCEPT ![built[i].username] =
                         [exists |-> TRUE, role_id |-> built[i].role_id]],
                     built, i + 1)

\* SeedRBAC, on the roles table
SeedRBACRoles(roles) == InsertRoles(roles, 1)

\* SeedDefaultUsers: the users slice is built while roleMap is still empty;
\* roleMap is filled from the roles table afterwards.
SeedDefaultUsersRows(roles, users) ==
    LET emptyRoleMap == [n \in {} |-> 0]
        built        == BuildUsers(emptyRoleMap)
    IN  InsertUsers(users, built, 1)

\* The tables database.Connect leaves on an empty database.
SeededTables ==
    LET roles == SeedRBACRoles(EmptyTables.roles)
    IN  [pc |-> "serving", fresh |-> TRUE, roles |-> roles,
         users |-> SeedDefaultUsersRows(roles, EmptyTables.users)]

\* No concurrent requests are being served.
NoPair == <<>>

\* No direct resolver call is under way.
NoCall == [userPermissions |-> <<>>, requiredPermission |-> <<>>, returned |-> <<>>]

required == route.permission

Init ==
    /\ mode \in Modes
    /\ header \in Headers
    /\ route \in Routes
    /\ param_id \in IF route.has_id THEN PathIDs ELSE {0}
    /\ \E custom \in HeldLists :
          catalog = [r \in RoleIDs |->
                        IF r = CustomRole THEN custom ELSE RolePermissionsMap(Roles[r])]
    /\ c = EmptyContext
    /\ pc = "auth"
    /\ status = 0
    /\ gate_outcome = "pending"
    /\ db_queries = 0
    /\ gate_queries = 0
    /\ handler_ran = FALSE
    /\ ownership_branch = FALSE
    /\ resolver = NoCall
    /\ seed = SeededTables
    /\ pair = NoPair

(***************************************************************************)
(* The Permission Catalog queries                                          *)
(***************************************************************************)
\* services.LoadUserPermissions / utils.GetRolePermissions: [err, permissions]
QueryCatalog(roleID, storeOk) ==
    IF storeOk THEN [err |-> FALSE, permissions |-> catalog[roleID]]
    ELSE [err |-> TRUE, permissions |-> <<>>]

(***************************************************************************)
(* AuthMiddleware(): optional authentication                               *)
(***************************************************************************)
\* The prefix test made case-insensitive.
HasBearerPrefixAnyCase(h) == h.scheme \in {"Bearer", "bearer"}

\* strings.HasPrefix(authHeader, "Bearer ")
HasBearerPrefix(h) == h.scheme = "Bearer"

\* Token parsing that skips the expiry check.
TokenValidIgnoringExpiry(h) == h.token.kind \in {"valid", "expired"}

\* jwt.Parse / utils.ParseToken succeed on a well-signed, unexpired token only
TokenValid(h) == h.token.kind = "valid"

AuthMiddleware ==
    /\ pc = "auth"
    /\ mode = "optional"
    /\ IF header.scheme = "" \/ ~HasBearerPrefix(header)
       THEN UNCHANGED <<c, db_queries>>
       ELSE IF ~TokenValid(header)
       THEN UNCHANGED <<c, db_queries>>
       ELSE \E storeOk \in BOOLEAN :
               LET q  == QueryCatalog(header.token.role_id, storeOk)
                   c1 == [c EXCEPT !.user_id = UintV(header.token.user_id),
                                   !.role_id = UintV(header.token.role_id)]
               IN  /\ c' = IF ~q.err THEN [c1 EXCEPT !.permissions = ListV(q.permissions)]
                           ELSE c1
                   /\ db_queries' = db_queries + 1
    /\ pc' = "gate"
    /\ UNCHANGED <<pair, resolver, seed, mode, header, route, param_id, catalog, status, gate_outcome,
                   gate_queries, handler_ran, ownership_branch>>

(***************************************************************************)
(* AuthMiddleware(allowPublic bool)                                        *)
(***************************************************************************)
\* setPublic also writing the gate's permission_scope key.
setPublicWithPermissionScope(ctx) ==
    [ctx EXCEPT !.user_id = NilV, !.role_id = NilV,
                !.permissions = ListV(<<>>), !.scope = StrV("public"),
                !.permission_scope = StrV("public")]

setPublic(ctx) ==
    [ctx EXCEPT !.user_id = NilV, !.role_id = NilV,
                !.permissions = ListV(<<>>), !.scope = StrV("public")]

\* parts := strings.Split(authHeader, " "); len(parts) == 2 && ToLower(parts[0]) == "bearer"
IsBearerFormat(h) == h.scheme \in {"Bearer", "bearer"}

AuthMiddlewareAllowPublic ==
    /\ pc = "auth"
    /\ mode \in {"allowPublic", "requireAuth"}
    /\ IF header.scheme = "" \/ ~IsBearerFormat(header) \/ ~TokenValid(header)
       THEN IF mode = "allowPublic"
            THEN /\ c' = setPublic(c)
                 /\ pc' = "gate"
                 /\ UNCHANGED <<status, db_queries>>
            ELSE /\ status' = 401
                 /\ pc' = "done"
                 /\ UNCHANGED <<c, db_queries>>
       ELSE \E storeOk \in BOOLEAN :
               LET q     == QueryCatalog(header.token.role_id, storeOk)
                   perms == IF q.err THEN <<>> ELSE q.permissions
               IN  /\ c' = [c EXCEPT !.user_id = UintV(header.token.user_id),
                                     !.role_id = UintV(header.token.role_id),
                                     !.permissions = ListV(perms),
                                     !.scope = StrV("auth")]
                   /\ db_queries' = db_queries + 1
                   /\ pc' = "gate"
                   /\ UNCHANGED status
    /\ UNCHANGED <<pair, resolver, seed, mode, header, route, param_id, catalog, gate_outcome,
                   gate_queries, handler_ran, ownership_branch>>

(***************************************************************************)
(* middlewares/permission.go                                               *)
(***************************************************************************)
\* loadUserPermissions turning a store error into an empty list.
loadUserPermissionsSwallowingErrors(ctx, storeOk) ==
    IF Exists(ctx.permissions) /\ TypeOf(ctx.permissions) = "[]string"
    THEN [err |-> FALSE, permissions |-> ctx.permissions[2], ctx |-> ctx, queries |-> 0]
    ELSE IF ~Exists(ctx.role_id)
    THEN [err |-> TRUE, permissions |-> <<>>, ctx |-> ctx, queries |-> 0]
    ELSE IF TypeOf(ctx.role_id) # "uint"
    THEN [err |-> TRUE, permissions |-> <<>>, ctx |-> ctx, queries |-> 0]
    ELSE LET q == QueryCatalog(ctx.role_id[2], storeOk)
         IN  IF q.err
             THEN [err |-> FALSE, permissions |-> <<>>, ctx |-> ctx, queries |-> 1]
             ELSE [err |-> FALSE, permissions |-> q.permissions,
                   ctx |-> [ctx EXCEPT !.permissions = ListV(q.permissions)],
                   queries |-> 1]

\* [err, permissions, ctx after the call, catalog queries issued]
loadUserPermissions(ctx, storeOk) ==
    IF Exists(ctx.permissions) /\ TypeOf(ctx.permissions) = "[]string"
    THEN [err |-> FALSE, permissions |-> ctx.permissions[2], ctx |-> ctx, queries |-> 0]
    ELSE IF ~Exists(ctx.role_id)
    THEN [err |-> TRUE, permissions |-> <<>>, ctx |-> ctx, queries |-> 0]
    ELSE IF TypeOf(ctx.role_id) # "uint"
    THEN [err |-> TRUE, permissions |-> <<>>, ctx |-> ctx, queries |-> 0]
    ELSE LET q == QueryCatalog(ctx.role_id[2], storeOk)
         IN  IF q.err
             THEN [err |-> TRUE, permissions |-> <<>>, ctx |-> ctx, queries |-> 1]
             ELSE [err |-> FALSE, permissions |-> q.permissions,
                   ctx |-> [ctx EXCEPT !.permissions = ListV(q.permissions)],
                   queries |-> 1]

IsAuthenticatedAlways(ctx) == TRUE

\* _, exists := c.Get(ContextKeyUserID)
IsAuthenticated(ctx) == Exists(ctx.user_id)

\* The scope loop with its exact-match test only.
RECURSIVE DetermineScopeExactOnly(_, _, _)
DetermineScopeExactOnly(userPermissions, permission, i) ==
    IF i > Len(userPermissions) THEN ""
    ELSE LET userPerm == userPermissions[i]
         IN  IF userPerm = permission /\ HasSuffix(userPerm, <<":", "public">>) THEN "public"
             ELSE IF userPerm = permission /\ HasSuffix(userPerm, <<":", "all">>) THEN "all"
             ELSE IF userPerm = permission /\ HasSuffix(userPerm, <<":", "own">>) THEN "own"
             ELSE DetermineScopeExactOnly(userPermissions, permission, i + 1)

\* for _, userPerm := range userPermissions { ... break }: "" when nothing matched
RECURSIVE DetermineScope(_, _, _)
DetermineScope(userPermissions, permission, i) ==
    IF i > Len(userPermissions) THEN ""
    ELSE LET userPerm       == userPermissions[i]
             basePermission == BasePermission(permission)
         IN  IF userPerm = permission /\ HasSuffix(userPerm, <<":", "public">>) THEN "public"
             ELSE IF userPerm = permission /\ HasSuffix(userPerm, <<":", "all">>) THEN "all"
             ELSE IF userPerm = permission /\ HasSuffix(userPerm, <<":", "own">>) THEN "own"
             ELSE IF basePermission # EmptyString /\ userPerm = basePermission THEN "all"
             ELSE IF basePermission # EmptyString
                     /\ userPerm = basePermission \o <<":", "all">> THEN "all"
             ELSE IF basePermission # EmptyString
                     /\ userPerm = basePermission \o <<":", "own">> THEN "own"
             ELSE DetermineScope(userPermissions, permission, i + 1)

\* if scope != "" { Set both } else if needsOwnershipCheck { Set "own" and the flag }
SetScope(ctx, scope, needsOwnershipCheck) ==
    IF scope # ""
    THEN [ctx EXCEPT !.permission_scope = StrV(scope),
                     !.needs_ownership_check = BoolV(needsOwnershipCheck)]
    ELSE IF needsOwnershipCheck
    THEN [ctx EXCEPT !.permission_scope = StrV("own"),
                     !.needs_ownership_check = BoolV(needsOwnershipCheck)]
    ELSE ctx

Admit(ctx, queries) == [outcome |-> "admit", status |-> 0, ctx |-> ctx, queries |-> queries]

\* A rejection that writes the response but neither aborts nor returns.
RejectWithoutAbort(code, ctx, queries) ==
    [outcome |-> "admit", status |-> code, ctx |-> ctx, queries |-> queries]

Reject(code, ctx, queries) ==
    [outcome |-> "reject", status |-> code, ctx |-> ctx, queries |-> queries]

\* The handler function RequirePermission(permission) returns, run on ctx.
Gate(ctx, permission, storeOk) ==
    IF CheckPublicPermission(permission)
    THEN Admit([ctx EXCEPT !.permission_scope = StrV("public"),
                           !.needs_ownership_check = BoolV(FALSE)], 0)
    ELSE IF ~IsAuthenticated(ctx)
    THEN Reject(401, ctx, 0)
    ELSE LET load == loadUserPermissions(ctx, storeOk)
         IN  IF load.err
             THEN Reject(500, load.ctx, load.queries)
             ELSE LET res == CheckScopedPermission(load.permissions, permission)
                      hasPermission       == res[1]
                      isPublic            == res[2]
                      needsOwnershipCheck == res[3]
                  IN  IF isPublic
                      THEN Admit([load.ctx EXCEPT !.permission_scope = StrV("public"),
                                                  !.needs_ownership_check = BoolV(FALSE)],
                                 load.queries)
                      ELSE IF ~hasPermission
                      THEN Reject(403, load.ctx, load.queries)
                      ELSE Admit(SetScope(load.ctx,
                                          DetermineScope(load.permissions, permission, 1),
                                          needsOwnershipCheck),
                                 load.queries)

RequirePermission ==
    /\ pc = "gate"
    /\ \E storeOk \in BOOLEAN :
          LET g == Gate(c, required, storeOk)
          IN  /\ c' = g.ctx
              /\ status' = g.status
              /\ gate_outcome' = IF g.outcome = "admit" THEN "admit" ELSE ToString(g.status)
              /\ pc' = IF g.outcome = "admit" THEN "handler" ELSE "done"
              /\ db_queries' = db_queries + g.queries
              /\ gate_queries' = gate_queries + g.queries
    /\ UNCHANGED <<pair, resolver, seed, mode, header, route, param_id, catalog, handler_ran, ownership_branch>>

(***************************************************************************)
(* controllers: the user handlers                                          *)
(***************************************************************************)
\* GetUserByID and UpdateUser share their body up to the response message:
\* [status, entered the ownership branch]
ScopedHandler(ctx) ==
    IF Exists(ctx.permission_scope) /\ ctx.permission_scope = StrV("own")
    THEN IF ~Exists(ctx.user_id)
         THEN [status |-> 401, branch |-> TRUE]
         ELSE IF TypeOf(ctx.user_id) # "uint"
         THEN [status |-> 500, branch |-> TRUE]   \* currentUserID.(uint) panics, gin recovers
         ELSE [status |-> 200, branch |-> TRUE]   \* the id is read and never compared
    ELSE [status |-> 200, branch |-> FALSE]

GetAllUsers ==
    /\ pc = "handler"
    /\ route.handler = "GetAllUsers"
    /\ status' = 200
    /\ handler_ran' = TRUE
    /\ pc' = "done"
    /\ UNCHANGED <<pair, resolver, seed, mode, header, route, param_id, catalog, c, gate_outcome,
                   db_queries, gate_queries, ownership_branch>>

GetUserByID ==
    /\ pc = "handler"
    /\ route.handler = "GetUserByID"
    /\ status' = ScopedHandler(c).status
    /\ ownership_branch' = ScopedHandler(c).branch
    /\ handler_ran' = TRUE
    /\ pc' = "done"
    /\ UNCHANGED <<pair, resolver, seed, mode, header, route, param_id, catalog, c, gate_outcome,
                   db_queries, gate_queries>>

CreateUser ==
    /\ pc = "handler"
    /\ route.handler = "CreateUser"
    /\ status' = 201
    /\ handler_ran' = TRUE
    /\ pc' = "done"
    /\ UNCHANGED <<pair, resolver, seed, mode, header, route, param_id, catalog, c, gate_outcome,
                   db_queries, gate_queries, ownership_branch>>

UpdateUser ==
    /\ pc = "handler"
    /\ route.handler = "UpdateUser"
    /\ status' = ScopedHandler(c).status
    /\ ownership_branch' = ScopedHandler(c).branch
    /\ handler_ran' = TRUE
    /\ pc' = "done"
    /\ UNCHANGED <<pair, resolver, seed, mode, header, route, param_id, catalog, c, gate_outcome,
                   db_queries, gate_queries>>

DeleteUser ==
    /\ pc = "handler"
    /\ route.handler = "DeleteUser"
    /\ status' = 200
    /\ handler_ran' = TRUE
    /\ pc' = "done"
    /\ UNCHANGED <<pair, resolver, seed, mode, header, route, param_id, catalog, c, gate_outcome,
                   db_queries, gate_queries, ownership_branch>>

Next ==
    \/ AuthMiddleware
    \/ AuthMiddlewareAllowPublic
    \/ RequirePermission
    \/ GetAllUsers
    \/ GetUserByID
    \/ CreateUser
    \/ UpdateUser
    \/ DeleteUser

Spec == Init /\ [][Next]_vars

(***************************************************************************)
(* The resolver called on its own, and the seeding run on its own          *)
(***************************************************************************)
\* No request is being served.
IdleRequest ==
    /\ mode = "optional"
    /\ header = [scheme |-> "", token |-> NoToken]
    /\ route = [permission |-> Str("users", "read"), handler |-> "GetAllUsers",
                has_id |-> FALSE]
    /\ param_id = 0
    /\ catalog = [r \in RoleIDs |->
                     IF r = CustomRole THEN <<>> ELSE RolePermissionsMap(Roles[r])]
    /\ c = EmptyContext
    /\ pc = "idle"
    /\ status = 0
    /\ gate_outcome = "pending"
    /\ db_queries = 0
    /\ gate_queries = 0
    /\ handler_ran = FALSE
    /\ ownership_branch = FALSE

requestVars == <<mode, header, route, param_id, catalog, c, pc, status, gate_outcome,
                 db_queries, gate_queries, handler_ran, ownership_branch>>

\* Required names a direct call is made with.
ResolverNames ==
    GrantableNames \cup
    { Scoped("blogs", "read", "public"), Scoped("users", "delete", "public"),
      Scoped("users", "delete", "own"), Scoped("users", "delete", "all") }

InitResolver ==
    /\ IdleRequest
    /\ pair = NoPair
    /\ seed = SeededTables
    /\ resolver \in [userPermissions : SeqsUpTo(GrantableNames, MaxHeld),
                     requiredPermission : ResolverNames,
                     returned : {<<>>}]

CallCheckScopedPermission ==
    /\ pc = "idle"
    /\ resolver.returned = <<>>
    /\ resolver' = [resolver EXCEPT !.returned =
                       CheckScopedPermission(resolver.userPermissions,
                                             resolver.requiredPermission)]
    /\ UNCHANGED <<requestVars, seed, pair>>

SpecResolver == InitResolver /\ [][CallCheckScopedPermission]_vars

\* Tables a start of the server may find: empty, or rows of earlier runs.
TablesAtStart ==
    { t \in [roles : [RoleNames -> 0..Len(Roles)],
             users : [DOMAIN EmptyTables.users ->
                        {NoRow} \cup [exists : {TRUE}, role_id : 0..Len(Roles)]]] :
        \A n1, n2 \in RoleNames :
            (t.roles[n1] # 0 /\ t.roles[n1] = t.roles[n2]) => n1 = n2 }

InitSeed ==
    /\ IdleRequest
    /\ pair = NoPair
    /\ resolver = NoCall
    /\ \E t \in TablesAtStart :
          seed = [pc |-> "SeedRBAC", fresh |-> (t = EmptyTables),
                  roles |-> t.roles, users |-> t.users]

SeedRBAC ==
    /\ seed.pc = "SeedRBAC"
    /\ seed' = [seed EXCEPT !.roles = SeedRBACRoles(seed.roles),
                            !.pc = "SeedDefaultUsers"]
    /\ UNCHANGED <<requestVars, resolver, pair>>

SeedDefaultUsers ==
    /\ seed.pc = "SeedDefaultUsers"
    /\ seed' = [seed EXCEPT !.users = SeedDefaultUsersRows(seed.roles, seed.users),
                            !.pc = "serving"]
    /\ UNCHANGED <<requestVars, resolver, pair>>

NextSeed ==
    \/ SeedRBAC
    \/ SeedDefaultUsers

SpecSeed == InitSeed /\ [][NextSeed]_vars

(***************************************************************************)
(* Two requests in flight: gin runs each handler chain on its own          *)
(* *gin.Context; the catalog is the one store both read                    *)
(***************************************************************************)
\* AuthMiddleware() / AuthMiddleware(allowPublic) run for request r on context ctx;
\* r.store[1] tells whether the store answers this middleware's query.
AuthMiddlewareOn(m, r, ctx) ==
    IF m = "optional"
    THEN IF r.header.scheme = "" \/ ~HasBearerPrefix(r.header) \/ ~TokenValid(r.header)
         THEN [r EXCEPT !.c = ctx, !.pc = "gate"]
         ELSE LET q  == QueryCatalog(r.header.token.role_id, r.store[1])
                  c1 == [ctx EXCEPT !.user_id = UintV(r.header.token.user_id),
                                    !.role_id = UintV(r.header.token.role_id)]
              IN  [r EXCEPT !.c = IF ~q.err
                                  THEN [c1 EXCEPT !.permissions = ListV(q.permissions)]
                                  ELSE c1,
                            !.pc = "gate"]
    ELSE IF r.header.scheme = "" \/ ~IsBearerFormat(r.header) \/ ~TokenValid(r.header)
         THEN IF m = "allowPublic"
              THEN [r EXCEPT !.c = setPublic(ctx), !.pc = "gate"]
              ELSE [r EXCEPT !.c = ctx, !.status = 401, !.pc = "done"]
         ELSE LET q     == QueryCatalog(r.header.token.role_id, r.store[1])
                  perms == IF q.err THEN <<>> ELSE q.permissions
              IN  [r EXCEPT !.c = [ctx EXCEPT !.user_id = UintV(r.header.token.user_id),
                                              !.role_id = UintV(r.header.token.role_id),
                                              !.permissions = ListV(perms),
                                              !.scope = StrV("auth")],
                            !.pc = "gate"]

\* RequirePermission(r.route.permission) run for request r on context ctx
RequirePermissionOn(r, ctx) ==
    LET g == Gate(ctx, r.route.permission, r.store[2])
    IN  [r EXCEPT !.c = g.ctx,
                  !.status = g.status,
                  !.gate_outcome = IF g.outcome = "admit" THEN "admit" ELSE ToString(g.status),
                  !.pc = IF g.outcome = "admit" THEN "handler" ELSE "done"]

\* The route's handler run for request r on context ctx
HandlerOn(r, ctx) ==
    [r EXCEPT !.c = ctx,
              !.status = IF r.route.handler \in {"GetUserByID", "UpdateUser"}
                         THEN ScopedHandler(ctx).status
                         ELSE IF r.route.handler = "CreateUser" THEN 201 ELSE 200,
              !.handler_ran = TRUE,
              !.pc = "done"]

\* Credentials and routes of the two requests.
PairHeaders ==
    { h \in Headers : \/ h.scheme = ""
                      \/ h.scheme = "Bearer" /\ h.token.kind = "valid"
                         /\ h.token.role_id \in {1, CustomRole} }

PairRoutes ==
    { rt \in Routes : \/ rt.permission = Str("users", "delete")
                      \/ rt.handler = "GetUserByID"
                         /\ rt.permission \in {Str("users", "read"),
                                               Scoped("users", "read", "own")} }

PairCustomLists == { <<>>, <<Scoped("users", "read", "own")>> }

NewRequest(h, rt, st) ==
    [header |-> h, route |-> rt, store |-> st, c |-> EmptyContext, pc |-> "auth",
     status |-> 0, gate_outcome |-> "pending", handler_ran |-> FALSE]

\* The server carries one identity middleware; the other request variables idle.
InitPair ==
    /\ mode \in Modes
    /\ header = [scheme |-> "", token |-> NoToken]
    /\ route = [permission |-> Str("users", "read"), handler |-> "GetAllUsers",
                has_id |-> FALSE]
    /\ param_id = 0
    /\ \E custom \in PairCustomLists :
          catalog = [r \in RoleIDs |->
                        IF r = CustomRole THEN custom ELSE RolePermissionsMap(Roles[r])]
    /\ c = EmptyContext
    /\ pc = "idle"
    /\ status = 0
    /\ gate_outcome = "pending"
    /\ db_queries = 0
    /\ gate_queries = 0
    /\ handler_ran = FALSE
    /\ ownership_branch = FALSE
    /\ resolver = NoCall
    /\ seed = SeededTables
    /\ pair \in [1..2 -> { NewRequest(h, rt, st) :
                             h \in PairHeaders, rt \in PairRoutes,
                             st \in BOOLEAN \X BOOLEAN }]

\* The context another request's step is shared with.
ContextOfFirst(i) == pair[1].c

\* func(c *gin.Context): the context gin hands the i-th request's handlers
ContextOf(i) == pair[i].c

ServeAuthMiddleware(i) ==
    /\ pair[i].pc = "auth"
    /\ pair' = [pair EXCEPT ![i] = AuthMiddlewareOn(mode, pair[i], ContextOf(i))]
    /\ UNCHANGED <<requestVars, resolver, seed>>

ServeRequirePermission(i) ==
    /\ pair[i].pc = "gate"
    /\ pair' = [pair EXCEPT ![i] = RequirePermissionOn(pair[i], ContextOf(i))]
    /\ UNCHANGED <<requestVars, resolver, seed>>

ServeHandler(i) ==
    /\ pair[i].pc = "handler"
    /\ pair' = [pair EXCEPT ![i] = HandlerOn(pair[i], ContextOf(i))]
    /\ UNCHANGED <<requestVars, resolver, seed>>

NextPair ==
    \E i \in 1..2 :
        \/ ServeAuthMiddleware(i)
        \/ ServeRequirePermission(i)
        \/ ServeHandler(i)

SpecPair == InitPair /\ [][NextPair]_vars

(***************************************************************************)
(* Properties                                                              *)
(***************************************************************************)
GateRan == gate_outcome # "pending"

Admitted == gate_outcome = "admit"

IsPublicName(p) == HasSuffix(p, <<":", "public">>)

\* The context carries a subject id.
HasSubject == TypeOf(c.user_id) = "uint"

\* The held list the gate worked on, once the context carries one.
HasHeld == TypeOf(c.permissions) = "[]string"

Held == c.permissions[2]

\* The required permission is resource:action or resource:action:scope.
HasBase(p) == Len(Split(p)) >= 2

Base(p) == SubSeq(p, 1, 3)

ScopeIs(s) == c.permission_scope = StrV(s)

NeedsIs(b) == c.needs_ownership_check = BoolV(b)

\* C1: a gate whose required permission ends in ":public" admits every request,
\* with scope "public" and needs_ownership_check false, without querying the
\* catalog, and the route handler then runs.
C1_PublicAdmitsEveryone ==
    (GateRan /\ IsPublicName(required)) =>
        /\ Admitted
        /\ ScopeIs("public")
        /\ NeedsIs(FALSE)
        /\ gate_queries = 0
        /\ pc \in {"handler", "done"}
        /\ (pc = "done" => handler_ran)

C1_Witness ==
    /\ pc = "done"
    /\ IsPublicName(required)
    /\ header.scheme = ""
    /\ ~Exists(c.user_id)
    /\ handler_ran
    /\ ScopeIs("public")

C5_BareSubsumesOwn ==
    (GateRan /\ HasSubject /\ HasHeld /\ Len(Split(required)) = 3
       /\ HasSuffix(required, <<":", "own">>) /\ Held = <<Base(required)>>) =>
        /\ Admitted
        /\ ScopeIs("all")
        /\ NeedsIs(FALSE)

\* C6: required r:a and a held list that is [r:a] or [r:a:all], subject
\* present: admitted with scope "all" and needs_ownership_check false.
C6_BareOrAllHeldForBase ==
    (GateRan /\ HasSubject /\ HasHeld /\ Len(Split(required)) = 2
       /\ Held \in { <<required>>, <<required \o <<":", "all">> >> }) =>
        /\ Admitted
        /\ ScopeIs("all")
        /\ NeedsIs(FALSE)

C6_Witness ==
    /\ Admitted
    /\ HasSubject
    /\ HasHeld
    /\ required = Str("users", "read")
    /\ Held = <<Scoped("users", "read", "all")>>
    /\ ScopeIs("all")

\* C7: for a non-public required permission the first held entry, in list
\* order, equal to required, base, base:all or base:own decides everything:
\* (own, true) when that entry ends in ":own", (all, false) otherwise.
C7_FirstMatchDecides ==
    (Admitted /\ HasSubject /\ HasHeld /\ ~IsPublicName(required) /\ HasBase(required)) =>
        LET b       == Base(required)
            Match(i) == Held[i] \in {required, b, b \o <<":", "all">>, b \o <<":", "own">>}
            first   == CHOOSE i \in 1..Len(Held) :
                          Match(i) /\ \A j \in 1..(i - 1) : ~Match(j)
        IN  IF HasSuffix(Held[first], <<":", "own">>)
            THEN ScopeIs("own") /\ NeedsIs(TRUE)
            ELSE ScopeIs("all") /\ NeedsIs(FALSE)

\* C8: after an admit, needs_ownership_check is true exactly when
\* permission_scope is "own".
C8_FlagIffOwnScope ==
    Admitted => (NeedsIs(TRUE) <=> ScopeIs("own"))

\* C9: a subject s admitted with scope "own" on GET or PUT /users/:id gets 200
\* when the path id is s and 403 when it is not.
C9_OwnershipEnforced ==
    (pc = "done" /\ route \in UserRoutes /\ route.handler \in {"GetUserByID", "UpdateUser"}
       /\ Admitted /\ HasSubject /\ ScopeIs("own")) =>
        status = IF param_id = c.user_id[2] THEN 200 ELSE 403

\* C10: a caller holding users:read:own but neither users:read nor
\* users:read:all gets 403 on GET /users, and the handler never runs.
C10_OwnCannotListAll ==
    (pc = "done" /\ route.handler = "GetAllUsers" /\ HasSubject /\ HasHeld
       /\ Contains(Held, Scoped("users", "read", "own"))
       /\ ~Contains(Held, Str("users", "read"))
       /\ ~Contains(Held, Scoped("users", "read", "all"))) =>
        /\ status = 403
        /\ ~handler_ran

\* C11: a gate requiring r:a:all admits only holders of r:a:all or r:a; a
\* caller holding only r:a:own for that base is rejected with 403.
C11_AllRouteNeedsAllOrBare ==
    (GateRan /\ HasSubject /\ HasHeld /\ Len(Split(required)) = 3
       /\ HasSuffix(required, <<":", "all">>)) =>
        /\ Admitted => (Contains(Held, required) \/ Contains(Held, Base(required)))
        /\ (/\ ~Contains(Held, required)
            /\ ~Contains(Held, Base(required))
            /\ Contains(Held, Base(required) \o <<":", "own">>)) => gate_outcome = "403"

\* The header carries what AuthMiddleware() accepts: "Bearer " and a good token.
ValidCredential == header.scheme = "Bearer" /\ header.token.kind = "valid"

NoCredential ==
    \/ header.token.kind # "valid"
    \/ header.scheme \notin (IF mode = "optional" THEN {"Bearer"} ELSE {"Bearer", "bearer"})

\* What each middleware leaves in the context for a request without a header.
AnonymousContext ==
    IF mode = "allowPublic"
    THEN [EmptyContext EXCEPT !.user_id = NilV, !.role_id = NilV,
                              !.permissions = ListV(<<>>), !.scope = StrV("public")]
    ELSE EmptyContext

\* The final status of a request without a header: a function of the
\* middleware and the route alone.
AnonymousStatus ==
    IF mode = "requireAuth" THEN 401
    ELSE IF IsPublicName(required) THEN 200
    ELSE IF mode = "optional" THEN 401
    ELSE 403

\* C13: under each middleware a request with an invalid, expired or malformed
\* credential leaves the identity middleware with the context of a request
\* without any header, and ends with the same status.
C13_InvalidEqualsAbsent ==
    NoCredential =>
        /\ pc = "gate" => c = AnonymousContext
        /\ pc = "done" => status = AnonymousStatus

C13_Witness ==
    /\ pc = "done"
    /\ mode = "allowPublic"
    /\ header.token.kind = "badsig"
    /\ c.user_id = NilV
    /\ status = AnonymousStatus

\* C14: with AuthMiddleware(true) in front, a request without a valid
\* credential to a non-public route is rejected with 401.
C14_GuestIs401 ==
    (mode = "allowPublic" /\ NoCredential /\ GateRan /\ ~IsPublicName(required)) =>
        /\ gate_outcome = "401"
        /\ status = 401

\* C15: subject present, non-public permission, and no held list obtained
\* (none cached, and the store fails): the gate rejects with 500 and the handler
\* never runs.
C15_LookupFailureIs500 ==
    (GateRan /\ ~IsPublicName(required) /\ Exists(c.user_id) /\ ~HasHeld) =>
        /\ gate_outcome = "500"
        /\ status = 500
        /\ pc = "done"
        /\ ~handler_ran
        /\ ~Exists(c.permission_scope)

C15_Witness ==
    /\ gate_outcome = "500"
    /\ HasSubject
    /\ ~HasHeld
    /\ gate_queries = 1
    /\ status = 500

\* C17: a gate configured with a name of fewer than 2 parts admits nobody.
C17_MalformedNeverAdmits ==
    (GateRan /\ Len(Split(required)) < 2) => ~Admitted

\* C18: on POST /users and DELETE /users/:id a caller of a seeded role whose
\* held list is the seeded one is admitted with scope "all" when the role is
\* superadmin and rejected with 403 when it is admin or user.
C18_SeededCreateDelete ==
    (GateRan /\ route \in UserRoutes /\ route.handler \in {"CreateUser", "DeleteUser"}
       /\ HasSubject /\ HasHeld /\ c.role_id[2] \in 1..Len(Roles)
       /\ Held = RolePermissionsMap(Roles[c.role_id[2]])) =>
        IF Roles[c.role_id[2]] = "superadmin"
        THEN Admitted /\ ScopeIs("all") /\ NeedsIs(FALSE)
        ELSE /\ gate_outcome = "403"
             /\ status = 403
             /\ ~handler_ran

C18_Witness ==
    /\ pc = "done"
    /\ route.handler = "DeleteUser"
    /\ HasSubject
    /\ HasHeld
    /\ c.role_id[2] \in 1..Len(Roles)
    /\ Roles[c.role_id[2]] = "superadmin"
    /\ Held = RolePermissionsMap("superadmin")
    /\ handler_ran
    /\ ScopeIs("all")

Returned == resolver.returned # <<>>

\* C16 as claimed: for every name ending in ":public" and every held list,
\* CheckScopedPermission returns granted, public, no ownership check.
C16_PublicAlwaysGranted ==
    (Returned /\ IsPublicName(resolver.requiredPermission)) =>
        resolver.returned = <<TRUE, TRUE, FALSE>>

\* C16 amended: for every name ending in ":public" and every held list,
\* CheckScopedPermission returns isPublic true and needsOwnershipCheck false;
\* hasPermission is true exactly when the held list holds the name itself or a
\* name that begins with the name's part before "public".
C16_PublicIsPublic ==
    (Returned /\ IsPublicName(resolver.requiredPermission)) =>
        LET req   == resolver.requiredPermission
            held  == resolver.userPermissions
            stem  == SubSeq(req, 1, Len(req) - 1)
            holds == \E i \in 1..Len(held) :
                        \/ held[i] = req
                        \/ /\ Len(held[i]) >= Len(stem)
                           /\ SubSeq(held[i], 1, Len(stem)) = stem
        IN  /\ resolver.returned[2] = TRUE
            /\ resolver.returned[3] = FALSE
            /\ resolver.returned[1] = holds

C16_Witness ==
    /\ Returned
    /\ resolver.requiredPermission = Scoped("blogs", "read", "public")
    /\ resolver.userPermissions = <<>>
    /\ resolver.returned = <<FALSE, TRUE, FALSE>>

\* C20: after SeedRBAC and SeedDefaultUsers on an empty database every default
\* user exists and its RoleID is the id of the role of the same name.
C20_DefaultUsersBoundToRoles ==
    (seed.pc = "serving" /\ seed.fresh) =>
        \A u \in DOMAIN seed.users :
            /\ seed.users[u].exists
            /\ seed.roles[u] # 0
            /\ seed.users[u].role_id = seed.roles[u]

\* C21: over the whole chain of one request the catalog is queried at most
\* once, also when a lookup fails.
C21_AtMostOneQuery == db_queries <= 1

\* C22: a request that passes through RequirePermission gets one outcome among
\* admit, 401, 403 and 500 and keeps it; a rejection writes its status, ends the
\* chain and no handler runs; an admission writes no response and the handler
\* runs; no handler runs without an admission.
C22_OneTerminalOutcome ==
    /\ [](/\ GateRan => gate_outcome \in {"admit", "401", "403", "500"}
          /\ (GateRan /\ ~Admitted) =>
                /\ status \in {401, 403, 500}
                /\ gate_outcome = ToString(status)
                /\ pc = "done"
                /\ ~handler_ran
          /\ pc = "handler" => (Admitted /\ status = 0 /\ ~handler_ran)
          /\ handler_ran => (Admitted /\ pc = "done")
          /\ (Admitted /\ pc = "done") => handler_ran)
    /\ [][GateRan => gate_outcome' = gate_outcome]_vars

C22_Witness ==
    /\ pc = "done"
    /\ gate_outcome = "403"
    /\ status = 403
    /\ HasSubject
    /\ ~handler_ran

ScopeKeysAbsent == ~Exists(c.permission_scope) /\ ~Exists(c.needs_ownership_check)

\* C23: permission_scope and needs_ownership_check are absent until the
\* identity middleware has finished and stay absent unless the gate admits;
\* only the RequirePermission step writes them, so at most once; and the
\* RequirePermission step leaves user_id and role_id as they were.
C23_ContextWrittenOnceInOrder ==
    /\ [](/\ pc \in {"auth", "gate"} => ScopeKeysAbsent
          /\ ~Admitted => ScopeKeysAbsent)
    /\ [][/\ pc = "gate" => (c'.user_id = c.user_id /\ c'.role_id = c.role_id)
          /\ pc # "gate" => /\ c'.permission_scope = c.permission_scope
                            /\ c'.needs_ownership_check = c.needs_ownership_check]_vars

C23_Witness ==
    /\ pc = "done"
    /\ Admitted
    /\ mode = "allowPublic"
    /\ c.scope = StrV("auth")
    /\ ScopeIs("own")
    /\ NeedsIs(TRUE)
    /\ c.user_id = UintV(header.token.user_id)

\* resource:action or resource:action:scope with scope own, all or public
WellFormed(p) ==
    LET parts == Split(p)
    IN  \/ Len(parts) = 2
        \/ Len(parts) = 3 /\ parts[3] \in {<<"own">>, <<"all">>, <<"public">>}

\* C24: when the required permission and every held name are well-formed, an
\* admission leaves permission_scope set to "public", "all" or "own" and
\* needs_ownership_check set to a boolean.
C24_AdmitWritesScope ==
    (Admitted /\ WellFormed(required)
       /\ (HasHeld => \A i \in 1..Len(Held) : WellFormed(Held[i]))) =>
        /\ c.permission_scope \in {StrV("public"), StrV("all"), StrV("own")}
        /\ c.needs_ownership_check \in {BoolV(TRUE), BoolV(FALSE)}

C24_Witness ==
    /\ Admitted
    /\ required = Str("users", "read")
    /\ HasHeld
    /\ Held = <<Str("users", "read")>>
    /\ ScopeIs("all")
    /\ NeedsIs(FALSE)
    /\ pc = "handler"

\* C25: GetUserByID and UpdateUser enter their ownership branch exactly when
\* needs_ownership_check is true in the context.
C25_BranchIffFlag ==
    (handler_ran /\ route.handler \in {"GetUserByID", "UpdateUser"}) =>
        (ownership_branch <=> NeedsIs(TRUE))

\* The guest-fallback middleware queried the catalog for a valid credential and
\* left a held list that is not the role's list: the query failed.
PreloadFailed ==
    /\ mode = "allowPublic"
    /\ header.scheme \in {"Bearer", "bearer"}
    /\ header.token.kind = "valid"
    /\ pc # "auth"
    /\ HasHeld
    /\ Held # catalog[header.token.role_id]

\* C26: in guest-fallback mode a failed lookup for a valid credential on a
\* non-public route ends with status 500.
C26_GuestLookupFailureIs500 ==
    (PreloadFailed /\ GateRan /\ ~IsPublicName(required)) =>
        /\ gate_outcome = "500"
        /\ status = 500

\* C28: a caller who holds base:own but neither base nor base:all, admitted
\* on base, base:own or base:all, gets scope "own" with needs_ownership_check
\* true: never scope "all", never the flag false.
C28_OwnOnlyStaysOwn ==
    (Admitted /\ HasHeld /\ HasBase(required) /\ ~IsPublicName(required)
       /\ Contains(Held, Base(required) \o <<":", "own">>)
       /\ ~Contains(Held, Base(required))
       /\ ~Contains(Held, Base(required) \o <<":", "all">>)) =>
        /\ ~ScopeIs("all")
        /\ ~NeedsIs(FALSE)
        /\ ScopeIs("own")
        /\ NeedsIs(TRUE)

C28_Witness ==
    /\ Admitted
    /\ required = Scoped("users", "read", "all")
    /\ HasHeld
    /\ Held = <<Scoped("users", "read", "public"), Scoped("users", "read", "own")>>
    /\ ScopeIs("own")
    /\ NeedsIs(TRUE)

Entries(l) == {l[i] : i \in 1..Len(l)}

\* C29: hasPermission and needsOwnershipCheck are the same for every held list
\* with the same set of entries, whatever their order and repetition.
C29_OrderAndRepetitionIrrelevant ==
    Returned =>
        \A l \in SeqsUpTo(GrantableNames, MaxHeld) :
            Entries(l) = Entries(resolver.userPermissions) =>
                LET other == CheckScopedPermission(l, resolver.requiredPermission)
                IN  /\ other[1] = resolver.returned[1]
                    /\ other[3] = resolver.returned[3]

C29_Witness ==
    /\ Returned
    /\ resolver.userPermissions = <<Scoped("users", "read", "own"), Scoped("users", "read", "all")>>
    /\ resolver.requiredPermission = Str("users", "read")
    /\ resolver.returned = <<TRUE, FALSE, FALSE>>
    /\ CheckScopedPermission(<<Scoped("users", "read", "all"), Scoped("users", "read", "own")>>,
                             Str("users", "read")) = <<TRUE, FALSE, FALSE>>

\* if isPublic { admit } else if !hasPermission { 403 } else { admit }
GateAdmits(res) == res[2] \/ res[1]

\* C30: when the gate admits on a held list it admits on every held list that
\* contains all its entries.
C30_GrantMonotone ==
    (Returned /\ GateAdmits(resolver.returned)) =>
        \A l \in SeqsUpTo(GrantableNames, MaxHeld) :
            Entries(resolver.userPermissions) \subseteq Entries(l) =>
                GateAdmits(CheckScopedPermission(l, resolver.requiredPermission))

C30_Witness ==
    /\ Returned
    /\ resolver.userPermissions = <<Str("users", "read")>>
    /\ resolver.requiredPermission = Scoped("users", "read", "own")
    /\ resolver.returned = <<TRUE, FALSE, TRUE>>
    /\ GateAdmits(CheckScopedPermission(<<Str("users", "delete"), Str("users", "read")>>,
                                        Scoped("users", "read", "own")))

\* The request served with no other request in flight.
RunAlone(r) ==
    LET a == AuthMiddlewareOn(mode, NewRequest(r.header, r.route, r.store), EmptyContext)
        g == IF a.pc = "gate" THEN RequirePermissionOn(a, a.c) ELSE a
    IN  IF g.pc = "handler" THEN HandlerOn(g, g.c) ELSE g

====
